---- MODULE Spec2Model ----
(***************************************************************************)
(* Model of muspy/inputs/music21.py: the conversion of a music21 stream    *)
(* (score, part) into muspy's tick-based Music / Track records.            *)
(*                                                                         *)
(* Three specifications share the variables:                               *)
(*   SpecNotes  the item loop of parse_notes_and_chords, one item a step;  *)
(*   SpecBeats  parse_beats applied to a list of measure offsets and a     *)
(*              time-signature list;                                       *)
(*   SpecScore  from_music21_score (and from_music21_part) on a score.     *)
(*                                                                         *)
(* Offsets and lengths of the source are in quarter notes and are kept as  *)
(* rationals [num, den]; ticks are integers.  Indices keep the 0-based     *)
(* values of the code, sequences are read at index + 1.                    *)
(***************************************************************************)
EXTENDS Integers, Sequences, FiniteSets

VARIABLES
    resolution,       \* the resolution argument of the running call
    pc,               \* position of the running call
    stream,           \* parse_notes_and_chords: the items iterated so far
    notes,            \* parse_notes_and_chords: notes
    chords,           \* parse_notes_and_chords: chords
    ties,             \* parse_notes_and_chords: ties (pitch -> note index)
    measure_offset_map, \* parse_beats: keys of stream.measureOffsetMap()
    time_signatures,  \* parse_beats argument / from_music21_score local
    beats,            \* result of parse_beats
    score,            \* from_music21_score: the score being converted
    part_idx,         \* from_music21_score: parts already iterated
    tracks,           \* from_music21_score: tracks
    docs,             \* the Music documents returned so far
    part_tracks       \* the result of from_music21_part, when called

vars == <<resolution, pc, stream, notes, chords, ties, measure_offset_map,
          time_signatures, beats, score, part_idx, tracks, docs, part_tracks>>

---------------------------------------------------------------------------
(* Bounds of the model.                                                    *)

MaxItems == 3
MaxMeasures == 3
MaxTimeSignatures == 2
MaxAnnotations == 3

(* muspy.DEFAULT_RESOLUTION *)
DEFAULT_RESOLUTION == 24

Resolutions == {12, DEFAULT_RESOLUTION}

(* An optional value: <<>> is None, <<x>> holds x. *)
None == <<>>

Some(x) == <<x>>

---------------------------------------------------------------------------
(* Rationals and rounding.                                                 *)

Rat(n, d) == [num |-> n, den |-> d]

RatLeq(a, b) == a.num * b.den <= b.num * a.den

(* Python 3 round() of the float n / d (n >= 0, d > 0): to the nearest     *)
(* integer, a half to the even neighbour.                                  *)
RoundHalfEven(n, d) ==
    LET q == n \div d
        r == n % d
    IN  IF 2 * r < d THEN q
        ELSE IF 2 * r > d THEN q + 1
        ELSE IF q % 2 = 0 THEN q ELSE q + 1

(* round(float(offset * resolution)) *)
Quantize(offset, res) == RoundHalfEven(offset.num * res, offset.den)

RECURSIVE SumSeq(_)
SumSeq(s) == IF s = <<>> THEN 0 ELSE Head(s) + SumSeq(Tail(s))

Range(s) == {s[i] : i \in 1..Len(s)}

---------------------------------------------------------------------------
(* parse_notes_and_chords                                                  *)

NoTies == [p \in {} |-> 0]

Note(time, pitch, duration, velocity) ==
    [time |-> time, pitch |-> pitch, duration |-> duration, velocity |-> velocity]

Chord(time, pitches, duration, velocity) ==
    [time |-> time, pitches |-> pitches, duration |-> duration, velocity |-> velocity]

(* velocity = item.volume.velocity; rounded when it is not None *)
Velocity(item) ==
    IF item.velocity = None THEN None
    ELSE Some(RoundHalfEven(item.velocity[1].num, item.velocity[1].den))

(* item.tie and (item.tie.type == "start" or item.tie.type == "continue") *)
is_outgoing_tie(item) == item.tie = "start" \/ item.tie = "continue"

SetTie(t, pitch, idx) ==
    [p \in DOMAIN t \cup {pitch} |-> IF p = pitch THEN idx ELSE t[p]]

DelTie(t, pitch) == [p \in DOMAIN t \ {pitch} |-> t[p]]

TiedNoteDropsDuration(w, pitch, duration, outgoing) ==
    LET note_idx == w.ties[pitch]
    IN  [w EXCEPT !.ties = IF outgoing THEN SetTie(w.ties, pitch, note_idx)
                           ELSE DelTie(w.ties, pitch)]

(* The branch "if pitch in ties": the open note is extended. *)
TiedNote(w, pitch, duration, outgoing) ==
    LET note_idx == w.ties[pitch]
    IN  [w EXCEPT !.notes[note_idx + 1].duration = @ + duration,
                  !.ties = IF outgoing THEN SetTie(w.ties, pitch, note_idx)
                           ELSE DelTie(w.ties, pitch)]

NewNoteTieOffByOne(w, time, pitch, duration, velocity, outgoing) ==
    LET appended == Append(w.notes, Note(time, pitch, duration, velocity))
    IN  [w EXCEPT !.notes = appended,
                  !.ties = IF outgoing THEN SetTie(w.ties, pitch, Len(appended))
                           ELSE w.ties]

(* The branch "else": a new Note is appended, and registered when tied. *)
NewNote(w, time, pitch, duration, velocity, outgoing) ==
    LET appended == Append(w.notes, Note(time, pitch, duration, velocity))
    IN  [w EXCEPT !.notes = appended,
                  !.ties = IF outgoing THEN SetTie(w.ties, pitch, Len(appended) - 1)
                           ELSE w.ties]

NewChordMergesTied(w, time, pitches, duration, velocity) ==
    IF /\ w.chords /= <<>>
       /\ w.chords[Len(w.chords)].pitches = pitches
    THEN [w EXCEPT !.chords[Len(w.chords)].duration = @ + duration]
    ELSE [w EXCEPT !.chords = Append(w.chords, Chord(time, pitches, duration, velocity))]

(* The branch "elif item.isChord". *)
NewChord(w, time, pitches, duration, velocity) ==
    [w EXCEPT !.chords = Append(w.chords, Chord(time, pitches, duration, velocity))]

(* One iteration of "for item in stream.flat.notesAndRests". *)
ParseItem(w, item, res) ==
    IF ~item.isNote /\ ~item.isChord THEN w
    ELSE IF item.isGrace THEN w
    ELSE LET time == Quantize(item.offset, res)
             duration == Quantize(item.quarterLength, res)
             velocity == Velocity(item)
         IN  IF item.isNote
             THEN LET pitch == item.pitches[1]
                  IN  IF pitch \in DOMAIN w.ties
                      THEN TiedNote(w, pitch, duration, is_outgoing_tie(item))
                      ELSE NewNote(w, time, pitch, duration, velocity,
                                   is_outgoing_tie(item))
             ELSE NewChord(w, time, item.pitches, duration, velocity)

RECURSIVE ParseItems(_, _, _)
ParseItems(w, items, res) ==
    IF items = <<>> THEN w
    ELSE ParseItems(ParseItem(w, Head(items), res), Tail(items), res)

EmptyWalk == [notes |-> <<>>, chords |-> <<>>, ties |-> NoTies]

parse_notes_and_chords(items, res) == ParseItems(EmptyWalk, items, res)

---------------------------------------------------------------------------
(* parse_beats                                                             *)

TimeSignature(time, numerator, denominator) ==
    [time |-> time, numerator |-> numerator, denominator |-> denominator]

Beat(time, is_downbeat) == [time |-> time, is_downbeat |-> is_downbeat]

Ceil(n, d) == IF n <= 0 THEN 0 ELSE (n + d - 1) \div d

ArangeClosed(start, stop, step) ==
    LET n == Ceil((stop.num * start.den - start.num * stop.den) * step.den,
                  stop.den * start.den * step.num)
    IN  [j \in 1..(n + 1) |->
            Rat(start.num * step.den + (j - 1) * step.num * start.den,
                start.den * step.den)]

(* np.arange(start, stop, step): start + j * step for every j >= 0 with    *)
(* start + j * step < stop, that is ceil((stop - start) / step) values.    *)
Arange(start, stop, step) ==
    LET n == Ceil((stop.num * start.den - start.num * stop.den) * step.den,
                  stop.den * start.den * step.num)
    IN  [j \in 1..n |->
            Rat(start.num * step.den + (j - 1) * step.num * start.den,
                start.den * step.den)]

(* beat_resolution = resolution / (time_sign.denominator / 4) *)
BeatResolution(time_sign, res) == Rat(res * 4, time_sign.denominator)

(* end = downbeats[downbeat_idx] + beat_resolution * time_sign.numerator *)
LastMeasureEnd(start, time_sign, res) ==
    Rat(start * time_sign.denominator + res * 4 * time_sign.numerator,
        time_sign.denominator)

(* The "Append beats" loop of one measure: j counts from 0. *)
MeasureBeats(start, end, time_sign, res) ==
    LET times == Arange(Rat(start, 1), end, BeatResolution(time_sign, res))
    IN  [j \in 1..Len(times) |->
            Beat(RoundHalfEven(times[j].num, times[j].den),
                 (j - 1) % time_sign.numerator = 0)]

RECURSIVE Insert(_, _)
Insert(sorted, x) ==
    IF sorted = <<>> THEN <<x>>
    ELSE IF x < Head(sorted) THEN <<x>> \o sorted
    ELSE <<Head(sorted)>> \o Insert(Tail(sorted), x)

(* list.sort() of a list of ticks *)
RECURSIVE SortTicks(_)
SortTicks(s) ==
    IF s = <<>> THEN <<>> ELSE Insert(SortTicks(SubSeq(s, 1, Len(s) - 1)), s[Len(s)])

(* downbeats: the quantized keys of the measure offset map, sorted *)
Downbeats(offsets, res) ==
    SortTicks([i \in 1..Len(offsets) |-> Quantize(offsets[i], res)])

(* The while loop of parse_beats, from the given cursor values. *)
RECURSIVE BeatsLoop(_, _, _, _, _, _)
BeatsLoop(downbeats, tss, res, time_sign_idx, downbeat_idx, acc) ==
    IF ~(downbeat_idx < Len(downbeats)) THEN acc
    ELSE IF /\ time_sign_idx < Len(tss) - 1
            /\ downbeats[downbeat_idx + 1] >= tss[time_sign_idx + 1].time
    THEN BeatsLoop(downbeats, tss, res, time_sign_idx + 1, downbeat_idx, acc)
    ELSE LET time_sign == tss[time_sign_idx + 1]
             start == downbeats[downbeat_idx + 1]
             end == IF downbeat_idx < Len(downbeats) - 1
                    THEN Rat(downbeats[downbeat_idx + 2], 1)
                    ELSE LastMeasureEnd(start, time_sign, res)
         IN  BeatsLoop(downbeats, tss, res, time_sign_idx, downbeat_idx + 1,
                       acc \o MeasureBeats(start, end, time_sign, res))

parse_beats(offsets, tss, res) ==
    BeatsLoop(Downbeats(offsets, res), tss, res, 0, 0, <<>>)

---------------------------------------------------------------------------
(* parse_tempos, parse_key_signatures, parse_time_signatures               *)

Tempo(time, qpm) == [time |-> time, qpm |-> qpm]

KeySignature(time, root, mode, fifths) ==
    [time |-> time, root |-> root, mode |-> mode, fifths |-> fifths]

(* Equality of two records of one class: all their fields are equal. *)
SameRecord(a, b) == a = b

(* set.add *)
SetAdd(S, x) == IF \E y \in S : SameRecord(x, y) THEN S ELSE S \cup {x}

SortedByTime(s) == \A i \in 1..(Len(s) - 1) : s[i].time <= s[i + 1].time

StrictlyByTime(s) == \A i \in 1..(Len(s) - 1) : s[i].time < s[i + 1].time

NoDuplicates(s) == \A i \in 1..Len(s) : \A j \in 1..Len(s) : s[i] = s[j] => i = j

Orders(S) ==
    {s \in [1..Cardinality(S) -> S] : \A x \in S : \E i \in 1..Cardinality(S) : s[i] = x}

Unsorted(S) == Orders(S)

(* sorted(a_set, key=attrgetter("time")): the sort is stable and the set   *)
(* is iterated in an unspecified order, so the result is any list of the   *)
(* set's elements that ascends in time.                                    *)
sorted(S) == {s \in Orders(S) : SortedByTime(s)}

(* metronome.getQuarterBPM() *)
getQuarterBPM(mark) == (mark.number * mark.referent.num) \div mark.referent.den

OfClass(flat, classes) ==
    LET Is(item) == item.cls \in classes
    IN  SelectSeq(flat, Is)

DefaultMark ==
    [cls |-> "MetronomeMark", offset |-> Rat(0, 1), number |-> 120,
     referent |-> Rat(1, 1), tonic |-> 0, mode |-> "", sharps |-> 0,
     numerator |-> 0, denominator |-> 0]

(* stream.flat.metronomeMarkBoundaries(): one boundary per metronome mark, *)
(* from the mark's offset; the default mark of 120 governs from offset 0   *)
(* when no mark stands there.                                              *)
metronomeMarkBoundaries(flat) ==
    LET marks == OfClass(flat, {"MetronomeMark"})
    IN  IF marks = <<>> THEN <<DefaultMark>>
        ELSE IF marks[1].offset.num > 0 THEN <<DefaultMark>> \o marks
        ELSE marks

DefaultTimeSignature ==
    [cls |-> "TimeSignature", offset |-> Rat(0, 1), number |-> 0,
     referent |-> Rat(1, 1), tonic |-> 0, mode |-> "", sharps |-> 0,
     numerator |-> 4, denominator |-> 4]

(* stream.flat.getTimeSignatures(): the time signatures, 4/4 at offset 0   *)
(* when there is none.                                                     *)
getTimeSignatures(flat) ==
    LET found == OfClass(flat, {"TimeSignature"})
    IN  IF found = <<>> THEN <<DefaultTimeSignature>> ELSE found

RECURSIVE TempoSet(_, _, _)
TempoSet(tempos, boundaries, res) ==
    IF boundaries = <<>> THEN tempos
    ELSE LET metronome == Head(boundaries)
             tempo == Tempo(Quantize(metronome.offset, res), getQuarterBPM(metronome))
         IN  TempoSet(SetAdd(tempos, tempo), Tail(boundaries), res)

parse_tempos(flat, res) == sorted(TempoSet({}, metronomeMarkBoundaries(flat), res))

RECURSIVE KeySignatureSet(_, _, _)
KeySignatureSet(key_signatures, items, res) ==
    IF items = <<>> THEN key_signatures
    ELSE LET item == Head(items)
             key_signature ==
                 IF item.cls = "Key"
                 THEN KeySignature(Quantize(item.offset, res), Some(item.tonic),
                                   Some(item.mode), item.sharps)
                 ELSE KeySignature(Quantize(item.offset, res), None, None, item.sharps)
         IN  KeySignatureSet(SetAdd(key_signatures, key_signature), Tail(items), res)

parse_key_signatures(flat, res) ==
    sorted(KeySignatureSet({}, OfClass(flat, {"Key", "KeySignature"}), res))

RECURSIVE TimeSignatureSet(_, _, _)
TimeSignatureSet(tss, items, res) ==
    IF items = <<>> THEN tss
    ELSE LET item == Head(items)
             time_signature ==
                 TimeSignature(Quantize(item.offset, res), item.numerator,
                               item.denominator)
         IN  TimeSignatureSet(SetAdd(tss, time_signature), Tail(items), res)

parse_time_signatures(flat, res) ==
    sorted(TimeSignatureSet({}, getTimeSignatures(flat), res))

---------------------------------------------------------------------------
(* parse_metadata, parse_track, from_music21_part, from_music21_score      *)

RECURSIVE Flatten(_)
Flatten(ss) == IF ss = <<>> THEN <<>> ELSE Head(ss) \o Flatten(Tail(ss))

Metadata(title, creators, copyright) ==
    [title |-> title, creators |-> creators, copyright |-> copyright]

RECURSIVE LastCopyright(_, _)
LastCopyright(copyright, items) ==
    IF items = <<>> THEN copyright
    ELSE LastCopyright(IF Head(items)[1] = "copyright" THEN Some(Head(items)[2])
                       ELSE copyright,
                       Tail(items))

parse_metadata(metadata) ==
    IF metadata = None THEN None
    ELSE LET m == metadata[1]
         IN  Some(Metadata(m.title, Flatten(m.contributors),
                           LastCopyright(None, m.all)))

Track(program, is_drum, name, track_notes, track_chords) ==
    [program |-> program, is_drum |-> is_drum, name |-> name,
     notes |-> track_notes, chords |-> track_chords]

parse_track(part, res) ==
    LET parsed == parse_notes_and_chords(part.flat, res)
        program == IF part.midiProgram /= None THEN part.midiProgram[1] ELSE 0
        is_drum == IF part.midiChannel /= None THEN part.midiChannel[1] = 10 ELSE FALSE
    IN  Track(program, is_drum, part.partName, parsed.notes, parsed.chords)

(* partitionByInstrument(part): the sub-parts, none when there is no       *)
(* partition.                                                              *)
partitionByInstrument(part) == part.partition

(* The result as a list: a single Track is the list of that Track. *)
from_music21_part(part, res) ==
    LET instruments == partitionByInstrument(part)
    IN  IF instruments = <<>> THEN <<parse_track(part, res)>>
        ELSE [i \in 1..Len(instruments) |-> parse_track(instruments[i], res)]

(* The tracks one iteration of "for part in score.parts" appends. *)
PartTracks(part) ==
    LET instruments == partitionByInstrument(part)
    IN  IF instruments /= <<>>
        THEN [i \in 1..Len(instruments) |->
                 parse_track(instruments[i], DEFAULT_RESOLUTION)]
        ELSE IF Len(part.flat) > 0 THEN <<parse_track(part, DEFAULT_RESOLUTION)>>
        ELSE <<>>

Music(metadata, tempos, key_signatures, tss, beat_list, track_list) ==
    [metadata |-> metadata, resolution |-> DEFAULT_RESOLUTION, tempos |-> tempos,
     key_signatures |-> key_signatures, time_signatures |-> tss,
     beats |-> beat_list, tracks |-> track_list]

---------------------------------------------------------------------------
(* The items a flattened part can hold.                                    *)

Item(isNote, isChord, isGrace, offset, quarterLength, pitches, tie, velocity) ==
    [isNote |-> isNote, isChord |-> isChord, isGrace |-> isGrace,
     offset |-> offset, quarterLength |-> quarterLength, pitches |-> pitches,
     tie |-> tie, velocity |-> velocity]

ItemOffsets == {Rat(0, 1), Rat(3, 8)}

TieTypes == {"none", "start", "continue", "stop"}

ItemsAt(o) ==
    {Item(FALSE, FALSE, FALSE, o, Rat(1, 1), <<>>, "none", None)}
    \cup {Item(TRUE, FALSE, TRUE, o, Rat(0, 1), <<60>>, "start", None)}
    \cup {Item(TRUE, FALSE, FALSE, o, q, <<60>>, t, Some(Rat(181, 2))) :
            q \in {Rat(3, 8), Rat(1, 1)}, t \in TieTypes}
    \cup {Item(TRUE, FALSE, FALSE, o, Rat(1, 2), <<62>>, t, None) : t \in TieTypes}
    \cup {Item(FALSE, TRUE, FALSE, o, Rat(1, 2), <<60, 64>>, t, Some(Rat(64, 1))) :
            t \in {"none", "start"}}

Items == UNION {ItemsAt(o) : o \in ItemOffsets}

(* stream.flat yields its items in offset order. *)
InOffsetOrder(items, item) ==
    IF items = <<>> THEN TRUE ELSE RatLeq(items[Len(items)].offset, item.offset)

Walk == [notes |-> notes, chords |-> chords, ties |-> ties]

InitNotes ==
    /\ resolution \in Resolutions
    /\ pc = "items"
    /\ stream = <<>>
    /\ notes = <<>>
    /\ chords = <<>>
    /\ ties = NoTies
    /\ measure_offset_map = <<>>
    /\ time_signatures = <<>>
    /\ beats = <<>>
    /\ score = <<>>
    /\ part_idx = 0
    /\ tracks = <<>>
    /\ docs = <<>>
    /\ part_tracks = <<>>

NotesOther == <<resolution, pc, measure_offset_map, time_signatures, beats,
                score, part_idx, tracks, docs, part_tracks>>

Iterate(item) ==
    /\ pc = "items"
    /\ Len(stream) < MaxItems
    /\ InOffsetOrder(stream, item)
    /\ stream' = Append(stream, item)
    /\ LET w == ParseItem(Walk, item, resolution)
       IN  /\ notes' = w.notes
           /\ chords' = w.chords
           /\ ties' = w.ties
    /\ UNCHANGED NotesOther

IgnoreRest == \E item \in Items :
    /\ ~item.isNote /\ ~item.isChord
    /\ Iterate(item)

IgnoreGrace == \E item \in Items :
    /\ item.isNote \/ item.isChord
    /\ item.isGrace
    /\ Iterate(item)

ParseTiedNote == \E item \in Items :
    /\ item.isNote /\ ~item.isGrace
    /\ item.pitches[1] \in DOMAIN ties
    /\ Iterate(item)

ParseNewNote == \E item \in Items :
    /\ item.isNote /\ ~item.isGrace
    /\ item.pitches[1] \notin DOMAIN ties
    /\ Iterate(item)

ParseChord == \E item \in Items :
    /\ ~item.isNote /\ item.isChord /\ ~item.isGrace
    /\ Iterate(item)

NextNotes ==
    \/ IgnoreRest
    \/ IgnoreGrace
    \/ ParseTiedNote
    \/ ParseNewNote
    \/ ParseChord

SpecNotes == InitNotes /\ [][NextNotes]_vars

---------------------------------------------------------------------------
(* parse_beats on a measure offset map and a time-signature list.          *)

(* Measure offsets in quarter notes, ascending. *)
MeasureOffsets == <<Rat(0, 1), Rat(1, 32), Rat(4, 1), Rat(35, 8), Rat(7, 1)>>

(* The keys of a measure offset map: distinct offsets, ascending. *)
MeasureOffsetMaps ==
    {LET Chosen(o) == o \in {MeasureOffsets[i] : i \in S}
     IN  SelectSeq(MeasureOffsets, Chosen) :
        S \in {T \in SUBSET (1..Len(MeasureOffsets)) : Cardinality(T) <= MaxMeasures}}

BeatTimeSignatures ==
    {TimeSignature(t, n, d) : t \in {0, 96}, n \in {3, 4}, d \in {4, 8, 32}}

(* The non-empty lists parse_time_signatures can return: sorted by time,   *)
(* no record twice.                                                        *)
TimeSignatureLists ==
    UNION {{s \in [1..n -> BeatTimeSignatures] : SortedByTime(s) /\ NoDuplicates(s)} :
              n \in 1..MaxTimeSignatures}

InitBeats ==
    /\ resolution \in Resolutions
    /\ pc = "call"
    /\ measure_offset_map \in MeasureOffsetMaps
    /\ time_signatures \in TimeSignatureLists
    /\ beats = <<>>
    /\ stream = <<>>
    /\ notes = <<>>
    /\ chords = <<>>
    /\ ties = NoTies
    /\ score = <<>>
    /\ part_idx = 0
    /\ tracks = <<>>
    /\ docs = <<>>
    /\ part_tracks = <<>>

CallParseBeats ==
    /\ pc = "call"
    /\ beats' = parse_beats(measure_offset_map, time_signatures, resolution)
    /\ pc' = "done"
    /\ UNCHANGED <<resolution, stream, notes, chords, ties, measure_offset_map,
                   time_signatures, score, part_idx, tracks, docs, part_tracks>>

NextBeats == CallParseBeats

SpecBeats == InitBeats /\ [][NextBeats]_vars

---------------------------------------------------------------------------
(* from_music21_score on a score, twice, and from_music21_part on one of   *)
(* its parts.                                                              *)

Annotation(cls, offset, number, referent, tonic, mode, sharps, numerator, denominator) ==
    [cls |-> cls, offset |-> offset, number |-> number, referent |-> referent,
     tonic |-> tonic, mode |-> mode, sharps |-> sharps,
     numerator |-> numerator, denominator |-> denominator]

MetronomeMark(offset, number, referent) ==
    Annotation("MetronomeMark", offset, number, referent, 0, "", 0, 0, 0)

Key(offset, tonic, mode, sharps) ==
    Annotation("Key", offset, 0, Rat(1, 1), tonic, mode, sharps, 0, 0)

M21KeySignature(offset, sharps) ==
    Annotation("KeySignature", offset, 0, Rat(1, 1), 0, "", sharps, 0, 0)

M21TimeSignature(offset, numerator, denominator) ==
    Annotation("TimeSignature", offset, 0, Rat(1, 1), 0, "", 0, numerator, denominator)

(* The annotations a flattened score can hold, in offset order. *)
Annotations ==
    << MetronomeMark(Rat(0, 1), 60, Rat(1, 1)),
       MetronomeMark(Rat(0, 1), 45, Rat(2, 1)),
       Key(Rat(0, 1), 2, "major", 2),
       M21KeySignature(Rat(0, 1), 2),
       M21TimeSignature(Rat(0, 1), 4, 4),
       M21TimeSignature(Rat(0, 1), 3, 4),
       MetronomeMark(Rat(4, 1), 90, Rat(1, 1)),
       M21TimeSignature(Rat(4, 1), 3, 4) >>

(* A flattened score: up to MaxAnnotations annotations in offset order,    *)
(* the same annotation possibly several times.                             *)
FlatScores ==
    UNION {{[i \in 1..n |-> Annotations[idx[i]]] :
               idx \in {f \in [1..n -> 1..Len(Annotations)] :
                           \A i \in 1..(n - 1) : f[i] <= f[i + 1]}} :
              n \in 0..MaxAnnotations}

ScoreMeasureMaps ==
    {<<>>, <<Rat(0, 1), Rat(4, 1)>>, <<Rat(0, 1), Rat(4, 1), Rat(7, 1)>>}

SubPart(flat, midiProgram, midiChannel, partName) ==
    [flat |-> flat, midiProgram |-> midiProgram, midiChannel |-> midiChannel,
     partName |-> partName]

Part(flat, midiProgram, midiChannel, partName, partition) ==
    [flat |-> flat, midiProgram |-> midiProgram, midiChannel |-> midiChannel,
     partName |-> partName, partition |-> partition]

RestItem == Item(FALSE, FALSE, FALSE, Rat(0, 1), Rat(1, 1), <<>>, "none", None)

NoteItem == Item(TRUE, FALSE, FALSE, Rat(3, 8), Rat(1, 2), <<60>>, "none", Some(Rat(181, 2)))

ChordItem == Item(FALSE, TRUE, FALSE, Rat(4, 1), Rat(1, 1), <<60, 64>>, "start", None)

(* Parts: without note or rest and no partition, one sub-part, two         *)
(* sub-parts; with items and no partition; with items split over two       *)
(* instruments.                                                            *)
EmptyPart == Part(<<>>, None, None, "empty", <<>>)

EmptyPartOneInstrument ==
    Part(<<>>, Some(40), Some(1), "violin", <<SubPart(<<>>, Some(40), Some(1), "violin")>>)

EmptyPartTwoInstruments ==
    Part(<<>>, Some(40), Some(1), "doubling",
         <<SubPart(<<>>, Some(40), Some(1), "violin"),
           SubPart(<<>>, None, Some(10), "drums")>>)

WholePart == Part(<<RestItem, NoteItem>>, None, None, "piano", <<>>)

SplitPart ==
    Part(<<NoteItem, ChordItem>>, Some(40), Some(1), "doubling",
         <<SubPart(<<NoteItem>>, Some(40), Some(1), "violin"),
           SubPart(<<ChordItem>>, None, Some(10), "drums")>>)

ScoreParts ==
    {<<>>, <<EmptyPart>>, <<EmptyPartOneInstrument>>, <<EmptyPartTwoInstruments>>,
     <<WholePart>>, <<SplitPart>>, <<WholePart, EmptyPart>>,
     <<EmptyPartOneInstrument, SplitPart>>}

ScoreMetadata ==
    Some([title |-> "title", contributors |-> <<<<"a", "b">>, <<"c">>>>,
          all |-> <<<<"copyright", "x">>, <<"title", "title">>>>])

InitScore ==
    /\ resolution \in Resolutions
    /\ pc = "parts"
    /\ score \in [parts : ScoreParts, flat : FlatScores,
                  measureOffsetMap : ScoreMeasureMaps, metadata : {ScoreMetadata}]
    /\ part_idx = 0
    /\ tracks = <<>>
    /\ time_signatures = <<>>
    /\ beats = <<>>
    /\ docs = <<>>
    /\ part_tracks = <<>>
    /\ stream = <<>>
    /\ notes = <<>>
    /\ chords = <<>>
    /\ ties = NoTies
    /\ measure_offset_map = <<>>

ScoreOther == <<resolution, stream, notes, chords, ties, measure_offset_map, score>>

NextPart(part) ==
    /\ pc = "parts"
    /\ part_idx < Len(score.parts)
    /\ part = score.parts[part_idx + 1]
    /\ tracks' = tracks \o PartTracks(part)
    /\ part_idx' = part_idx + 1
    /\ UNCHANGED <<pc, time_signatures, beats, docs, part_tracks>>
    /\ UNCHANGED ScoreOther

(* if instruments: one track per sub-part *)
PartitionedPart == \E part \in Range(score.parts) :
    /\ partitionByInstrument(part) /= <<>>
    /\ NextPart(part)

(* elif len(part.flat.notesAndRests) > 0: one track of the part *)
UnpartitionedPart == \E part \in Range(score.parts) :
    /\ partitionByInstrument(part) = <<>>
    /\ Len(part.flat) > 0
    /\ NextPart(part)

(* neither: the part adds no track *)
DroppedPart == \E part \in Range(score.parts) :
    /\ partitionByInstrument(part) = <<>>
    /\ ~(Len(part.flat) > 0)
    /\ NextPart(part)

(* Lines 377-388: the annotations, the beats and the Music document. *)
BuildMusic ==
    /\ pc = "parts"
    /\ ~(part_idx < Len(score.parts))
    /\ \E tss \in parse_time_signatures(score.flat, resolution) :
       \E tempos \in parse_tempos(score.flat, DEFAULT_RESOLUTION) :
       \E key_signatures \in parse_key_signatures(score.flat, resolution) :
          /\ time_signatures' = tss
          /\ beats' = parse_beats(score.measureOffsetMap, tss, resolution)
          /\ docs' = Append(docs, Music(parse_metadata(score.metadata), tempos,
                                        key_signatures, tss, beats', tracks))
    /\ pc' = "done"
    /\ UNCHANGED <<part_idx, tracks, part_tracks>>
    /\ UNCHANGED ScoreOther

(* The same score is converted a second time. *)
ConvertAgain ==
    /\ pc = "done"
    /\ Len(docs) < 2
    /\ pc' = "parts"
    /\ part_idx' = 0
    /\ tracks' = <<>>
    /\ time_signatures' = <<>>
    /\ beats' = <<>>
    /\ UNCHANGED <<docs, part_tracks>>
    /\ UNCHANGED ScoreOther

(* from_music21 on a Part: one part of the score is converted on its own. *)
ConvertPart ==
    /\ pc = "done"
    /\ part_tracks = <<>>
    /\ \E i \in 1..Len(score.parts) :
          part_tracks' = Some([part |-> i,
                               tracks |-> from_music21_part(score.parts[i], resolution)])
    /\ UNCHANGED <<pc, part_idx, tracks, time_signatures, beats, docs>>
    /\ UNCHANGED ScoreOther

NextScore ==
    \/ PartitionedPart
    \/ UnpartitionedPart
    \/ DroppedPart
    \/ BuildMusic
    \/ ConvertAgain
    \/ ConvertPart

SpecScore == InitScore /\ [][NextScore]_vars

---------------------------------------------------------------------------
(* Properties of the score conversion.                                     *)

AnnotationLists(doc) == {doc.tempos, doc.key_signatures, doc.time_signatures}

(* C4 as stated: the tempo, key signature and time signature lists are     *)
(* strictly sorted by time (no two consecutive records share a time) and   *)
(* hold no two equal records.                                              *)
AnnotationListsStrictlySorted ==
    \A k \in 1..Len(docs) : \A list \in AnnotationLists(docs[k]) :
        StrictlyByTime(list) /\ NoDuplicates(list)

(* C4, amended: the tempo, key signature and time signature lists ascend   *)
(* in time, consecutive records sharing a time when they differ in another *)
(* field, and hold no two equal records.                                   *)
AnnotationListsSortedNoDuplicates ==
    \A k \in 1..Len(docs) : \A list \in AnnotationLists(docs[k]) :
        SortedByTime(list) /\ NoDuplicates(list)

(* A mark repeated in the stream gave one Tempo, a different mark at the   *)
(* same offset a second Tempo of the same time, before a later Tempo.      *)
AnnotationListsWitness ==
    /\ Len(docs) >= 1
    /\ Len(OfClass(score.flat, {"MetronomeMark"})) = 3
    /\ \E i \in 1..2 : score.flat[i] = score.flat[i + 1]
    /\ Len(docs[1].tempos) = 2
    /\ docs[1].tempos[1].time = docs[1].tempos[2].time
    /\ docs[1].tempos[1].qpm /= docs[1].tempos[2].qpm

ScoreItems == UNION {Range(score.parts[i].flat) : i \in 1..Len(score.parts)}

TrackEvents(doc) ==
    UNION {Range(doc.tracks[i].notes) \cup Range(doc.tracks[i].chords) :
              i \in 1..Len(doc.tracks)}

(* C5: whatever resolution is passed, the document has the default         *)
(* resolution and every time of its tempos, key signatures, time           *)
(* signatures, beats, notes and chords is the source offset in quarter     *)
(* notes times the document's resolution, rounded.                         *)
DocumentTimesInDocumentTicks ==
    \A k \in 1..Len(docs) :
        LET doc == docs[k]
            Ticks(items) == {Quantize(item.offset, doc.resolution) : item \in items}
        IN  /\ doc.resolution = DEFAULT_RESOLUTION
            /\ \A t \in Range(doc.tempos) :
                  t.time \in Ticks(Range(metronomeMarkBoundaries(score.flat)))
            /\ \A ks \in Range(doc.key_signatures) :
                  ks.time \in Ticks(Range(OfClass(score.flat, {"Key", "KeySignature"})))
            /\ \A ts \in Range(doc.time_signatures) :
                  ts.time \in Ticks(Range(getTimeSignatures(score.flat)))
            /\ \A o \in Range(score.measureOffsetMap) :
                  \E b \in Range(doc.beats) :
                      b.is_downbeat /\ b.time = Quantize(o, doc.resolution)
            /\ \A e \in TrackEvents(doc) :
                  \E item \in ScoreItems :
                      /\ e.time = Quantize(item.offset, doc.resolution)
                      /\ e.duration = Quantize(item.quarterLength, doc.resolution)

IsEmptyPart(part) == Len(part.flat) = 0

(* The number of tracks the parts 1..n add when a part without note or     *)
(* rest adds none, and any other part one per sub-part or one in all.      *)
RECURSIVE TracksOfNonEmptyParts(_)
TracksOfNonEmptyParts(n) ==
    IF n = 0 THEN 0
    ELSE LET part == score.parts[n]
         IN  TracksOfNonEmptyParts(n - 1)
                + (IF IsEmptyPart(part) THEN 0
                   ELSE IF part.partition /= <<>> THEN Len(part.partition) ELSE 1)

(* C6: at score level a part without note or rest adds no Track, whatever  *)
(* the instrument partition returns; from_music21_part on the same part    *)
(* still yields a Track, with empty notes and chords.                      *)
EmptyPartsAddNoTrack ==
    /\ pc \in {"parts", "done"} => Len(tracks) = TracksOfNonEmptyParts(part_idx)
    /\ (part_tracks /= <<>> /\ IsEmptyPart(score.parts[part_tracks[1].part]))
       => /\ part_tracks[1].tracks /= <<>>
          /\ \A t \in Range(part_tracks[1].tracks) : t.notes = <<>> /\ t.chords = <<>>

(* C7: two conversions of the same score give equal documents. *)
ConversionsAgree == Len(docs) = 2 => docs[1] = docs[2]

---------------------------------------------------------------------------
(* Properties of parse_beats.                                              *)

MeasureStarts == Downbeats(measure_offset_map, resolution)

BeatTimes == [k \in 1..Len(beats) |-> beats[k].time]

(* The index of the time signature with the greatest time <= m. *)
Governing(tss, m) ==
    CHOOSE i \in 1..Len(tss) :
        /\ tss[i].time <= m
        /\ \A j \in 1..Len(tss) : tss[j].time <= m => tss[j].time <= tss[i].time

(* The end of the span of measure k: the next measure start, or the last   *)
(* measure's start plus numerator beats of the signature ts.               *)
MeasureEnd(starts, k, ts, res) ==
    IF k < Len(starts) THEN Rat(starts[k + 1], 1)
    ELSE LastMeasureEnd(starts[k], ts, res)

(* The beats of the measures k, k + 1, ..., each generated under the time  *)
(* signature that governs its start.                                       *)
RECURSIVE GovernedBeats(_, _, _, _)
GovernedBeats(starts, tss, res, k) ==
    IF k > Len(starts) THEN <<>>
    ELSE LET ts == tss[Governing(tss, starts[k])]
         IN  MeasureBeats(starts[k], MeasureEnd(starts, k, ts, res), ts, res)
                \o GovernedBeats(starts, tss, res, k + 1)

(* C1: every measure is generated under the time signature that governs    *)
(* it, the one with the greatest time <= the measure start; with 4/4 at    *)
(* tick 0, 3/4 at tick 96, resolution 24 and measure starts 0, 96, 168 the *)
(* beats 0, 24, 48, 72 have their only downbeat at 0 and the measures at   *)
(* 96 and 168 hold 3 beats spaced 24.                                      *)
MeasuresUseGoverningSignature ==
    (/\ pc = "done"
     /\ MeasureStarts /= <<>>
     /\ StrictlyByTime(time_signatures)
     /\ time_signatures[1].time <= MeasureStarts[1])
    => /\ beats = GovernedBeats(MeasureStarts, time_signatures, resolution, 1)
       /\ (/\ resolution = 24
           /\ MeasureStarts = <<0, 96, 168>>
           /\ time_signatures = <<TimeSignature(0, 4, 4), TimeSignature(96, 3, 4)>>)
          => beats = <<Beat(0, TRUE), Beat(24, FALSE), Beat(48, FALSE),
                       Beat(72, FALSE), Beat(96, TRUE), Beat(120, FALSE),
                       Beat(144, FALSE), Beat(168, TRUE), Beat(192, FALSE),
                       Beat(216, FALSE)>>

(* C3: a produced Beat is a downbeat if and only if its tick is a measure  *)
(* start.                                                                  *)
DownbeatsExactlyAtMeasureStarts ==
    pc = "done" =>
        \A k \in 1..Len(beats) :
            beats[k].is_downbeat <=> beats[k].time \in Range(MeasureStarts)

(* The beat unit of a signature when it is a whole number of ticks. *)
WholeBeatUnit(ts, res) == (res * 4) % ts.denominator = 0

BeatUnit(ts, res) == (res * 4) \div ts.denominator

(* C9: with a single time signature n/d of whole beat unit u, the beats    *)
(* are exactly the ticks s, s + u, s + 2u, ... < e of every measure span   *)
(* [s, e), strictly ascending, inside [first start, last end), the last    *)
(* measure holding n beats; 4/4 at resolution 24 with measures at 0 and 96 *)
(* gives 0, 24, ..., 168 with downbeats exactly at 0 and 96.               *)
SingleSignatureBeatGrid ==
    (/\ pc = "done"
     /\ Len(time_signatures) = 1
     /\ WholeBeatUnit(time_signatures[1], resolution)
     /\ MeasureStarts /= <<>>)
    => LET ts == time_signatures[1]
           u == BeatUnit(ts, resolution)
           starts == MeasureStarts
           n == Len(starts)
           last_end == starts[n] + u * ts.numerator
           End(k) == IF k < n THEN starts[k + 1] ELSE last_end
           grid == {t \in starts[1]..last_end :
                       \E k \in 1..n : /\ starts[k] <= t /\ t < End(k)
                                       /\ (t - starts[k]) % u = 0}
       IN  /\ Range(BeatTimes) = grid
           /\ Len(beats) = Cardinality(grid)
           /\ \A k \in 1..(Len(beats) - 1) : beats[k].time < beats[k + 1].time
           /\ \A k \in 1..Len(beats) :
                 starts[1] <= beats[k].time /\ beats[k].time < last_end
           /\ Cardinality({k \in 1..Len(beats) : beats[k].time >= starts[n]})
                = ts.numerator
           /\ (/\ resolution = 24 /\ starts = <<0, 96>>
               /\ ts.numerator = 4 /\ ts.denominator = 4)
              => beats = <<Beat(0, TRUE), Beat(24, FALSE), Beat(48, FALSE),
                           Beat(72, FALSE), Beat(96, TRUE), Beat(120, FALSE),
                           Beat(144, FALSE), Beat(168, FALSE)>>

(* 4/4 at resolution 24 over the measures at ticks 0 and 96: 8 beats. *)
SingleSignatureWitness ==
    /\ pc = "done"
    /\ resolution = 24
    /\ MeasureStarts = <<0, 96>>
    /\ time_signatures = <<TimeSignature(0, 4, 4)>>
    /\ Len(beats) = 8
    /\ beats[5] = Beat(96, TRUE)

---------------------------------------------------------------------------
(* Properties of parse_notes_and_chords.                                   *)

IsFragment(item, p) == item.isNote /\ ~item.isGrace /\ item.pitches[1] = p

ItemPitches == UNION {Range(item.pitches) : item \in Items}

(* The non-grace single notes at pitch p among stream[i..j] are a tie      *)
(* chain: the first is stream[i] and starts the tie, the last is stream[j] *)
(* and stops it, the ones between continue it.                             *)
TieChain(i, j, p) ==
    /\ 1 <= i /\ i < j /\ j <= Len(stream)
    /\ IsFragment(stream[i], p) /\ stream[i].tie = "start"
    /\ IsFragment(stream[j], p) /\ stream[j].tie = "stop"
    /\ \A k \in (i + 1)..(j - 1) :
          IsFragment(stream[k], p) => stream[k].tie = "continue"

FragmentDurations(i, j, p) ==
    LET IsFrag(item) == IsFragment(item, p)
        frags == SelectSeq(SubSeq(stream, i, j), IsFrag)
    IN  [k \in 1..Len(frags) |-> Quantize(frags[k].quarterLength, resolution)]

NotesAtPitch(ns, p) == {k \in 1..Len(ns) : ns[k].pitch = p}

(* C2: a tie chain (start, continue, ..., stop) of non-grace single notes  *)
(* at one pitch, with no tie open at that pitch before it, yields exactly  *)
(* one Note: its time is the first fragment's time, its duration the sum   *)
(* of the fragments' durations, and no tie is left open at the pitch.      *)
TieChainYieldsOneNote ==
    \A i \in 1..Len(stream) : \A p \in ItemPitches :
        LET j == Len(stream)
            before == parse_notes_and_chords(SubSeq(stream, 1, i - 1), resolution)
            first == Len(before.notes) + 1
        IN  (TieChain(i, j, p) /\ p \notin DOMAIN before.ties) =>
                /\ Cardinality(NotesAtPitch(notes, p))
                     = Cardinality(NotesAtPitch(before.notes, p)) + 1
                /\ first <= Len(notes)
                /\ notes[first].pitch = p
                /\ notes[first].time = Quantize(stream[i].offset, resolution)
                /\ notes[first].duration = SumSeq(FragmentDurations(i, j, p))
                /\ p \notin DOMAIN ties

(* A chain start, continue, stop of three fragments has been merged. *)
TieChainWitness ==
    /\ Len(stream) = 3
    /\ TieChain(1, 3, 60)
    /\ stream[2].tie = "continue" /\ IsFragment(stream[2], 60)
    /\ stream[1].quarterLength /= stream[3].quarterLength
    /\ Len(notes) = 1
    /\ notes[1].duration = SumSeq(FragmentDurations(1, 3, 60))
    /\ ties = NoTies

(* C8: a non-grace chord item, whatever its tie and whatever ties are      *)
(* open, appends exactly one Chord with the item's own time, duration and  *)
(* pitches, and leaves the notes and the open ties as they were.           *)
ChordItemAppendsOneChord ==
    [][ (/\ Len(stream') = Len(stream) + 1
         /\ stream'[Len(stream')].isChord
         /\ ~stream'[Len(stream')].isNote
         /\ ~stream'[Len(stream')].isGrace)
        => LET item == stream'[Len(stream')]
           IN  /\ Len(chords') = Len(chords) + 1
               /\ SubSeq(chords', 1, Len(chords)) = chords
               /\ chords'[Len(chords')].time = Quantize(item.offset, resolution)
               /\ chords'[Len(chords')].duration
                    = Quantize(item.quarterLength, resolution)
               /\ chords'[Len(chords')].pitches = item.pitches
               /\ notes' = notes
               /\ ties' = ties ]_vars

(* A tied chord followed a chord of the same pitches while a tie is open. *)
ChordItemWitness ==
    /\ Len(stream) = 3
    /\ IsFragment(stream[1], 60) /\ stream[1].tie = "start"
    /\ stream[2].isChord /\ stream[2].tie = "start"
    /\ stream[3].isChord
    /\ Len(chords) = 2
    /\ 60 \in DOMAIN ties

NoteDurations == [k \in 1..Len(notes) |-> notes[k].duration]

SingleNoteDurations ==
    LET IsSingle(item) == item.isNote /\ ~item.isGrace
        singles == SelectSeq(stream, IsSingle)
    IN  [k \in 1..Len(singles) |-> Quantize(singles[k].quarterLength, resolution)]

(* C10: after any prefix of any stream, every open tie p -> i points at an *)
(* existing Note of pitch p (0 <= i < len(notes)), and the durations of    *)
(* the Notes add up to the quantized durations of the non-grace single     *)
(* notes iterated so far.                                                  *)
OpenTiesPointAtTheirNotes ==
    /\ \A p \in DOMAIN ties :
          /\ 0 <= ties[p] /\ ties[p] < Len(notes)
          /\ notes[ties[p] + 1].pitch = p
    /\ SumSeq(NoteDurations) = SumSeq(SingleNoteDurations)

(* A stop with no open tie appended a Note of its own, and the stream ends *)
(* with chains left open at two pitches.                                   *)
OpenTiesWitness ==
    /\ Len(stream) = 3
    /\ IsFragment(stream[1], 62) /\ stream[1].tie = "stop"
    /\ IsFragment(stream[2], 60) /\ stream[2].tie = "start"
    /\ IsFragment(stream[3], 62) /\ stream[3].tie = "continue"
    /\ DOMAIN ties = {60, 62}
    /\ ties[60] = 1

====
